---- MODULE Spec2Model ----
(***************************************************************************)
(* Model of seq_llm.core.server_manager.ServerManager: one supervisor      *)
(* instance, its caller, the operating system's process table and the      *)
(* connections bound to the ports the supervisor is asked to use.          *)
(*                                                                         *)
(* Every public method (start, stop) is one action.  What the method does  *)
(* on the way (probe, classify, terminate, wait, kill, spawn, health poll) *)
(* is recorded, in program order, in the history variable log, which holds *)
(* the events of the call that has just returned.  The caller takes the    *)
(* outcome (Observe) before it makes its next call.                        *)
(***************************************************************************)
EXTENDS Integers, Sequences, FiniteSets, TLC

\* ------------------------------------------------------------------ bounds
\* Number of children the supervisor may spawn in one behaviour.
MaxSpawn == 2

\* ------------------------------------------------------------- constants
\* Python's None for proc / pid / command (falsy, like pid 0 in `if self.pid`).
None == 0

\* Target ports handed to start: the ports of the two profiles of the default
\* configuration.  Processes the supervisor did not spawn contend for the
\* first one only.
ContendedPort == 8081
Ports == {ContendedPort, 8082}

\* Model paths handed to start.
Models == {"a.gguf"}

\* A port no TCP socket can have.
InvalidPort == 70000

\* Values of the argument port of start.
StartPorts == Ports \cup {InvalidPort}

\* Values of the argument args of start: none, a port flag, a model flag.
ArgLists == {<<>>, <<"--port", "9999">>, <<"--model", "b.gguf">>}

\* Values of the constructor argument llama_server_bin: the default, and a
\* path that contains none of ALLOWED_RECLAIM_SIGNATURES.
Bins == {"llama-server", "/opt/bin/server"}

\* PIDs: children get 1..MaxSpawn in spawn order; two processes that the
\* supervisor never spawned may also run: one whose exe/name/cmdline matches
\* ALLOWED_RECLAIM_SIGNATURES and one that does not.
ChildPids == 1..MaxSpawn
RecognizedPid == MaxSpawn + 1
ForeignPid == MaxSpawn + 2
ExternalPids == {RecognizedPid, ForeignPid}
Pids == ChildPids \cup ExternalPids

VARIABLES
    llama_server_bin, \* self.llama_server_bin
    proc,       \* self.proc: PID of the Popen handle, or None
    pid,        \* self.pid
    command,    \* self.command: the command line as a tuple, or None
    os,         \* process table: PID -> [alive, port, allowed]
    anon,       \* ports with a connection that reports no PID (conn.pid is None)
    nextPid,    \* PID the next Popen gets
    log,        \* events of the most recent start/stop call, in program order
    call,       \* the call that has just returned: name, arguments, outcome
    poll,       \* a running wait_for_health call: clock, backoff, outcome
    dec,        \* a running stream_chat generator: lines, position, tokens
    cli,        \* the CLI session: seq_llm.cli.state and where main() stands
    peer,       \* a second ServerManager of the same program: its attributes
    thr,        \* threads calling start/stop on the instance at the same time
    env,        \* the environment start hands to the child
    cls         \* a process on the port that the reclaim classifies

vars == <<llama_server_bin, proc, pid, command, os, anon, nextPid, log, call,
          poll, dec, cli, peer, thr, env, cls>>

\* No wait_for_health call / no stream_chat generator is being followed.
NoPoll == [status |-> "none"]
NoDec == [status |-> "none"]

\* No CLI session, no environment being built, no thread inside a call.
NoCli == [pc |-> "none"]
NoEnv == [status |-> "none"]
NoCls == [status |-> "none"]
Threads == {1, 2}
NoThr == [t \in Threads |-> [pc |-> "idle"]]

\* What __init__ leaves in a ServerManager built with llama_server_bin = bin.
Instance(bin) ==
    [llama_server_bin |-> bin, proc |-> None, pid |-> None, command |-> None]

\* A process that is not running.
Dead == [alive |-> FALSE, port |-> None, allowed |-> FALSE]

\* A running process bound to `port`; `allowed` is what
\* _is_allowed_reclaim_process answers for it.
Running(port, allowed) == [alive |-> TRUE, port |-> port, allowed |-> allowed]

\* The record kept of the call that has just returned.  prePid, preNext,
\* bound and unknown are taken from the state the call started in: the PID
\* tracked then, the PID the next Popen would get, the processes bound to the
\* target port, and those of them that were neither tracked nor matched by
\* the allow-list.
CallRec(op, port, args, strict, result, prePid, preNext, bound, unknown) ==
    [op |-> op, port |-> port, args |-> args, strict |-> strict,
     result |-> result, prePid |-> prePid, preNext |-> preNext,
     bound |-> bound, unknown |-> unknown]

NoCall == CallRec("none", None, <<>>, TRUE, "none", None, None, {}, {})

\* The caller is between two calls.
Idle == call.op = "none"

\* ------------------------------------------------------------ event log
Ev(kind, p) == <<kind, p>>

HasEv(l, kind, p) == \E i \in 1..Len(l) : l[i] = Ev(kind, p)

\* Index of the first event `kind` of `p` in l, 0 when there is none.
FirstIdx(l, kind, p) ==
    IF HasEv(l, kind, p)
    THEN CHOOSE i \in 1..Len(l) :
            /\ l[i] = Ev(kind, p)
            /\ \A j \in 1..(i - 1) : l[j] # Ev(kind, p)
    ELSE 0

\* PIDs on which the call logged in l called terminate() or kill().
Signalled(l) ==
    {p \in Pids : HasEv(l, "terminate", p) \/ HasEv(l, "kill", p)
                  \/ HasEv(l, "cleanup_terminate", p)}

\* ------------------------------------------------------- _is_port_open
\* A TCP connect to 127.0.0.1:port succeeds iff something is bound there.
PidsOn(table, port) == {p \in Pids : table[p].alive /\ table[p].port = port}

IsPortOpen(table, anonPorts, port) ==
    PidsOn(table, port) # {} \/ port \in anonPorts

\* ------------------------------------------------------- _kill_process
\* What can happen when _kill_process(p) is run on a process:
\*   gone      psutil.Process(p) or p.terminate() raises NoSuchProcess
\*   exit      the process exits within the 3 s wait
\*   timeout   wait raises TimeoutExpired, kill() ends the process
\*   killfail  wait raises TimeoutExpired, kill() raises (swallowed)
\*   denied    p.terminate() raises AccessDenied (not caught here)
KillOutcomes == {"gone", "exit", "timeout", "killfail", "denied"}

\* The state threaded through a call: process table, log, pending exception.
St(table, l, err) == [os |-> table, log |-> l, err |-> err]

\* KillProcess with the forced kill sent after every wait, timed out or not.
KillProcessAlwaysKills(st, p, outcome) ==
    IF ~st.os[p].alive \/ outcome = "gone"
    THEN St([st.os EXCEPT ![p] = Dead],
            Append(st.log, Ev("nosuch", p)), st.err)
    ELSE IF outcome = "denied"
    THEN St(st.os, Append(st.log, Ev("terminate", p)), "AccessDenied")
    ELSE IF outcome = "exit"
    THEN St([st.os EXCEPT ![p] = Dead],
            st.log \o <<Ev("terminate", p), Ev("wait_exited", p), Ev("kill", p)>>,
            st.err)
    ELSE St([st.os EXCEPT ![p] = Dead],
            st.log \o <<Ev("terminate", p), Ev("wait_timeout", p), Ev("kill", p)>>,
            st.err)

KillProcess(st, p, outcome) ==
    IF ~st.os[p].alive \/ outcome = "gone"
    THEN St([st.os EXCEPT ![p] = Dead],
            Append(st.log, Ev("nosuch", p)), st.err)
    ELSE IF outcome = "denied"
    THEN St(st.os, Append(st.log, Ev("terminate", p)), "AccessDenied")
    ELSE IF outcome = "exit"
    THEN St([st.os EXCEPT ![p] = Dead],
            st.log \o <<Ev("terminate", p), Ev("wait_exited", p)>>, st.err)
    ELSE IF outcome = "timeout"
    THEN St([st.os EXCEPT ![p] = Dead],
            st.log \o <<Ev("terminate", p), Ev("wait_timeout", p), Ev("kill", p)>>,
            st.err)
    ELSE St(st.os,
            st.log \o <<Ev("terminate", p), Ev("wait_timeout", p), Ev("kill", p)>>,
            st.err)

\* ------------------------------------------- _is_allowed_reclaim_process
\* Whether the command line of a child started from `bin` contains one of
\* ALLOWED_RECLAIM_SIGNATURES.
IsAllowedBin(bin) == bin = "llama-server"

\* ------------------------------------------- _reclaim_port_processes
\* The connections psutil.net_connections reports on `port`: one per running
\* process bound to it, and None for a connection that reports no PID.
ConnsOn(table, anonPorts, port) ==
    PidsOn(table, port) \cup (IF port \in anonPorts THEN {None} ELSE {})

\* Every order in which the connections in S can be enumerated.
Orders(S) ==
    {f \in [1..Cardinality(S) -> S] : \A i, j \in 1..Cardinality(S) :
                                          f[i] = f[j] => i = j}

\* What happens to each process bound to the port if the call looks it up or
\* kills it: at most one of them departs from a plain exit on SIGTERM.
Outcomes(S) ==
    {[p \in S |-> IF p = victim THEN outcome ELSE "exit"] :
        victim \in S, outcome \in KillOutcomes} \cup {[p \in S |-> "exit"]}

\* ReclaimConn without the strict / foreign test: every identified process
\* on the port is killed.
ReclaimConnKillsUnknown(st, c, strict, outs, idGone, tracked) ==
    IF c = None
    THEN IF strict
         THEN St(st.os, Append(st.log, Ev("refuse", None)), "PortConflict")
         ELSE St(st.os, Append(st.log, Ev("skip", None)), st.err)
    ELSE IF outs[c] = "gone"
    THEN St([st.os EXCEPT ![c] = Dead], Append(st.log, Ev("nosuch", c)), st.err)
    ELSE KillProcess(St(st.os, Append(st.log, Ev("classify", c)), st.err),
                     c, outs[c])

\* ReclaimConn without the is_tracked branch: only the allow-list decides.
ReclaimConnNoTracked(st, c, strict, outs, idGone, tracked) ==
    IF c = None
    THEN IF strict
         THEN St(st.os, Append(st.log, Ev("refuse", None)), "PortConflict")
         ELSE St(st.os, Append(st.log, Ev("skip", None)), st.err)
    ELSE IF outs[c] = "gone"
    THEN St([st.os EXCEPT ![c] = Dead], Append(st.log, Ev("nosuch", c)), st.err)
    ELSE LET seen == St(st.os, Append(st.log, Ev("classify", c)), st.err)
         IN  IF st.os[c].allowed
             THEN KillProcess(seen, c, outs[c])
             ELSE IF strict
             THEN St(st.os, Append(seen.log, Ev("refuse", c)), "PortConflict")
             ELSE St(st.os, Append(seen.log, Ev("skip", c)), st.err)

\* ReclaimConn whose permissive mode kills what strict mode refuses.
ReclaimConnPermissiveKills(st, c, strict, outs, idGone, tracked) ==
    IF c = None
    THEN IF strict
         THEN St(st.os, Append(st.log, Ev("refuse", None)), "PortConflict")
         ELSE St(st.os, Append(st.log, Ev("skip", None)), st.err)
    ELSE IF outs[c] = "gone"
    THEN St([st.os EXCEPT ![c] = Dead], Append(st.log, Ev("nosuch", c)), st.err)
    ELSE LET seen == St(st.os, Append(st.log, Ev("classify", c)), st.err)
         IN  IF tracked = c \/ st.os[c].allowed \/ ~strict
             THEN KillProcess(seen, c, outs[c])
             ELSE IF idGone
             THEN St([st.os EXCEPT ![c] = Dead],
                     Append(seen.log, Ev("refuse", c)), "NoSuchProcess")
             ELSE St(st.os, Append(seen.log, Ev("refuse", c)), "PortConflict")

\* One iteration of the loop, for connection c (lines 77-111).  outs[c] is
\* what happens to the process if it is looked up or killed; idGone says
\* that a refused process exits before _format_process_identity reads its
\* command line (cmdline() then raises NoSuchProcess, which is not caught).
ReclaimConn(st, c, strict, outs, idGone, tracked) ==
    IF c = None
    THEN IF strict
         THEN St(st.os, Append(st.log, Ev("refuse", None)), "PortConflict")
         ELSE St(st.os, Append(st.log, Ev("skip", None)), st.err)
    ELSE IF outs[c] = "gone"
    THEN St([st.os EXCEPT ![c] = Dead], Append(st.log, Ev("nosuch", c)), st.err)
    ELSE LET is_tracked == tracked = c
             is_allowed == st.os[c].allowed
             seen == St(st.os, Append(st.log, Ev("classify", c)), st.err)
         IN  IF is_tracked \/ is_allowed
             THEN KillProcess(seen, c, outs[c])
             ELSE IF strict
             THEN IF idGone
                  THEN St([st.os EXCEPT ![c] = Dead],
                          Append(seen.log, Ev("refuse", c)), "NoSuchProcess")
                  ELSE St(st.os, Append(seen.log, Ev("refuse", c)), "PortConflict")
             ELSE St(st.os, Append(seen.log, Ev("skip", c)), st.err)

\* The loop over the enumeration `order`, from position i on; an exception
\* ends it.
RECURSIVE ReclaimFrom(_, _, _, _, _, _, _)
ReclaimFrom(st, order, i, strict, outs, idGone, tracked) ==
    IF i > Len(order) \/ st.err # "none"
    THEN st
    ELSE ReclaimFrom(ReclaimConn(st, order[i], strict, outs, idGone, tracked),
                     order, i + 1, strict, outs, idGone, tracked)

ReclaimPortProcesses(st, port, order, strict, outs, idGone, tracked) ==
    ReclaimFrom(St(st.os, Append(st.log, Ev("reclaim", port)), st.err),
                order, 1, strict, outs, idGone, tracked)

\* --------------------------------------------------------------- start
\* What the spawned child does:
\*   spawn_error  Popen raises OSError, no child exists
\*   healthy      binds the port and answers /health with 200
\*   exited       exits on its own before the health poll gives up
\*   unhealthy    runs, never answers 200, exits on SIGTERM
\*   stubborn     runs, never answers 200, ignores SIGTERM
ChildBehaviours == {"spawn_error", "healthy", "exited", "unhealthy", "stubborn"}

\* A server told to listen on a port that does not exist cannot bind it: it
\* exits, if it can be started at all.
BehavioursOn(port) ==
    IF port \in 1..65535 THEN ChildBehaviours ELSE {"spawn_error", "exited"}

\* Line 135: cmd = [bin, "--model", model_path, "--port", str(port)] + args
Cmd(model, port, args) ==
    <<llama_server_bin, "--model", model, "--port", port>> \o args

\* StartReclaim without the probe's guard: the reclaim runs on a free port too.
StartReclaimAlways(port, order, strict, outs, idGone) ==
    ReclaimPortProcesses(
        St(os, <<Ev(IF IsPortOpen(os, anon, port) THEN "probe_open"
                    ELSE "probe_free", port)>>, "none"),
        port, order, strict, outs, idGone, pid)

\* Lines 129-133: probe the port, reclaim it when something answers.
StartReclaim(port, order, strict, outs, idGone) ==
    IF IsPortOpen(os, anon, port)
    THEN ReclaimPortProcesses(St(os, <<Ev("probe_open", port)>>, "none"),
                              port, order, strict, outs, idGone, pid)
    ELSE St(os, <<Ev("probe_free", port)>>, "none")

\* StartHealth that re-raises the poll's failure without any cleanup.
StartHealthNoCleanup(st, new, port, beh, occHealth) ==
    LET busy == PidsOn(st.os, port) # {}
        running == beh # "exited"
        child == IF running THEN Running(port, IsAllowedBin(llama_server_bin))
                 ELSE Dead
        healthOK == IF busy THEN occHealth ELSE beh = "healthy"
        spawnedOs == [st.os EXCEPT ![new] = child]
        spawnedLog == Append(st.log, Ev("spawn", new))
    IN  IF healthOK
        THEN St(spawnedOs, Append(spawnedLog, Ev("health_ok", port)), "none")
        ELSE St(spawnedOs,
                spawnedLog \o <<Ev("health_fail", port),
                                Ev(IF running THEN "poll_running" ELSE "poll_exited",
                                   new)>>,
                "TimeoutError")

\* Lines 141-148: the health poll and the cleanup after its failure.  The
\* poll is answered by whatever serves the port: the child when the port was
\* free for it, otherwise the process that still occupies it.
StartHealth(st, new, port, beh, occHealth) ==
    LET busy == PidsOn(st.os, port) # {}
        running == beh # "exited"
        child == IF running THEN Running(port, IsAllowedBin(llama_server_bin))
                 ELSE Dead
        healthOK == IF busy THEN occHealth ELSE beh = "healthy"
        spawnedOs == [st.os EXCEPT ![new] = child]
        spawnedLog == Append(st.log, Ev("spawn", new))
    IN  IF healthOK
        THEN St(spawnedOs, Append(spawnedLog, Ev("health_ok", port)), "none")
        ELSE IF running
        THEN St(IF beh = "stubborn" THEN spawnedOs
                ELSE [spawnedOs EXCEPT ![new] = Dead],
                spawnedLog \o <<Ev("health_fail", port), Ev("poll_running", new),
                                Ev("cleanup_terminate", new)>>,
                "TimeoutError")
        ELSE St(spawnedOs,
                spawnedLog \o <<Ev("health_fail", port), Ev("poll_exited", new)>>,
                "TimeoutError")

\* StartSpawn that drops the tracking of the child when the health poll
\* fails.
StartSpawnForgetsFailedChild(rec, model, port, args, beh, occHealth) ==
    IF beh = "spawn_error"
    THEN [proc |-> proc, pid |-> pid, command |-> command, nextPid |-> nextPid,
          os |-> rec.os, log |-> Append(rec.log, Ev("spawn_error", None)),
          result |-> "OSError"]
    ELSE LET h == StartHealth(rec, nextPid, port, beh, occHealth)
         IN  [proc |-> IF h.err = "none" THEN nextPid ELSE None,
              pid |-> IF h.err = "none" THEN nextPid ELSE None,
              command |-> IF h.err = "none" THEN Cmd(model, port, args)
                          ELSE None,
              nextPid |-> nextPid + 1, os |-> h.os, log |-> h.log,
              result |-> IF h.err = "none" THEN "ok" ELSE h.err]

\* StartSpawn that assigns self.command only while none is recorded.
StartSpawnKeepsCommand(rec, model, port, args, beh, occHealth) ==
    IF beh = "spawn_error"
    THEN [proc |-> proc, pid |-> pid, command |-> command, nextPid |-> nextPid,
          os |-> rec.os, log |-> Append(rec.log, Ev("spawn_error", None)),
          result |-> "OSError"]
    ELSE LET h == StartHealth(rec, nextPid, port, beh, occHealth)
         IN  [proc |-> nextPid, pid |-> nextPid,
              command |-> IF pid = None THEN Cmd(model, port, args)
                          ELSE command,
              nextPid |-> nextPid + 1, os |-> h.os, log |-> h.log,
              result |-> IF h.err = "none" THEN "ok" ELSE h.err]

\* Lines 135-148, reached when the reclaim raised nothing.
StartSpawn(rec, model, port, args, beh, occHealth) ==
    IF beh = "spawn_error"
    THEN [proc |-> proc, pid |-> pid, command |-> command, nextPid |-> nextPid,
          os |-> rec.os, log |-> Append(rec.log, Ev("spawn_error", None)),
          result |-> "OSError"]
    ELSE LET h == StartHealth(rec, nextPid, port, beh, occHealth)
         IN  [proc |-> nextPid, pid |-> nextPid,
              command |-> Cmd(model, port, args),
              nextPid |-> nextPid + 1, os |-> h.os, log |-> h.log,
              result |-> IF h.err = "none" THEN "ok" ELSE h.err]

\* StartAborted that swallows the reclaim's exception and spawns all the same.
StartAbortedSpawns(rec) ==
    [proc |-> nextPid, pid |-> nextPid, command |-> command,
     nextPid |-> nextPid + 1,
     os |-> [rec.os EXCEPT ![nextPid] = Running(None, FALSE)],
     log |-> Append(rec.log, Ev("spawn", nextPid)), result |-> rec.err]

\* An exception of the reclaim leaves start before anything is assigned.
StartAborted(rec) ==
    [proc |-> proc, pid |-> pid, command |-> command, nextPid |-> nextPid,
     os |-> rec.os, log |-> rec.log, result |-> rec.err]

\* PeerAfter for attributes kept on the class: what one instance assigns,
\* every instance sees.
PeerAfterShared(other, r) ==
    [other EXCEPT !.proc = r.proc, !.pid = r.pid, !.command = r.command]

\* What a call that leaves r in self's attributes leaves in another
\* instance: proc, pid and command are created per instance by __init__ and
\* start and stop assign them through self only.
PeerAfter(other, r) == other

\* The processes bound to `port` that are neither tracked nor allow-listed.
UnknownOn(port) == {p \in PidsOn(os, port) : p # pid /\ ~os[p].allowed}

StartReturns(r, port, args, strict) ==
    /\ proc' = r.proc
    /\ pid' = r.pid
    /\ command' = r.command
    /\ os' = r.os
    /\ nextPid' = r.nextPid
    /\ log' = r.log
    /\ call' = CallRec("start", port, args, strict, r.result, pid, nextPid,
                       PidsOn(os, port), UnknownOn(port))
    /\ peer' = PeerAfter(peer, r)
    /\ UNCHANGED <<llama_server_bin, anon, poll, dec, cli, thr, env, cls>>

Start(model, port, args, strict) ==
    /\ Idle
    /\ nextPid <= MaxSpawn
    /\ \E order \in Orders(ConnsOn(os, anon, port)),
          outs \in Outcomes(PidsOn(os, port)),
          idGone \in (IF strict /\ UnknownOn(port) # {} THEN BOOLEAN ELSE {FALSE}) :
        LET rec == StartReclaim(port, order, strict, outs, idGone)
        IN  IF rec.err # "none"
            THEN StartReturns(StartAborted(rec), port, args, strict)
            ELSE \E beh \in BehavioursOn(port),
                    occHealth \in (IF PidsOn(rec.os, port) # {} THEN BOOLEAN
                                   ELSE {FALSE}) :
                    StartReturns(StartSpawn(rec, model, port, args, beh,
                                            occHealth),
                                 port, args, strict)

\* ---------------------------------------------------------------- stop
\* StopResult that treats a call with nothing tracked as an error.
StopResultRaisesIdle(outcome) ==
    IF pid # None
    THEN LET st == KillProcess(St(os, <<>>, "none"), pid, outcome)
         IN  [proc |-> None, pid |-> None, command |-> None,
              os |-> st.os, log |-> st.log, result |-> "ok"]
    ELSE [proc |-> proc, pid |-> pid, command |-> command,
          os |-> os, log |-> <<>>, result |-> "RuntimeError"]

\* StopResult without the try/except around _kill_process: an exception
\* leaves stop before the reset.
StopResultKeepsOnError(outcome) ==
    IF pid # None
    THEN LET st == KillProcess(St(os, <<>>, "none"), pid, outcome)
         IN  IF st.err # "none"
             THEN [proc |-> proc, pid |-> pid, command |-> command,
                   os |-> st.os, log |-> st.log, result |-> st.err]
             ELSE [proc |-> None, pid |-> None, command |-> None,
                   os |-> st.os, log |-> st.log, result |-> "ok"]
    ELSE [proc |-> proc, pid |-> pid, command |-> command,
          os |-> os, log |-> <<>>, result |-> "ok"]

StopResult(outcome) ==
    IF pid # None
    THEN LET st == KillProcess(St(os, <<>>, "none"), pid, outcome)
         IN  [proc |-> None, pid |-> None, command |-> None,
              os |-> st.os, log |-> st.log, result |-> "ok"]
    ELSE [proc |-> proc, pid |-> pid, command |-> command,
          os |-> os, log |-> <<>>, result |-> "ok"]

Stop ==
    /\ Idle
    /\ \E outcome \in KillOutcomes :
        LET r == StopResult(outcome)
        IN  /\ proc' = r.proc
            /\ pid' = r.pid
            /\ command' = r.command
            /\ os' = r.os
            /\ log' = r.log
            /\ call' = CallRec("stop", None, <<>>, TRUE, r.result, pid, nextPid, {}, {})
            /\ peer' = PeerAfter(peer, r)
            /\ UNCHANGED <<llama_server_bin, anon, nextPid, poll, dec, cli,
                           thr, env, cls>>

\* ---------------------------------------------------------- is_running
\* psutil.pid_exists(p): p is in the process table.
PidExists(p) == os[p].alive

\* IsRunning that answers from the tracking alone, without looking at the
\* process table.
IsRunningCached == pid # None

IsRunning == IF pid = None THEN FALSE ELSE PidExists(pid)

\* A call of is_running(); it changes nothing.
IsRunningCall ==
    /\ Idle
    /\ call' = CallRec("is_running", None, <<>>, TRUE,
                       IF IsRunning THEN "True" ELSE "False", pid, nextPid,
                       {}, {})
    /\ log' = <<>>
    /\ UNCHANGED <<llama_server_bin, proc, pid, command, os, anon, nextPid,
                   poll, dec,
                   cli, peer, thr, env, cls>>

\* -------------------------------------------------------------- caller
\* The caller takes the outcome of the call that returned.
Observe ==
    /\ ~Idle
    /\ call' = NoCall
    /\ log' = <<>>
    /\ UNCHANGED <<llama_server_bin, proc, pid, command, os, anon, nextPid, poll, dec,
                   cli, peer, thr, env, cls>>

\* ---------------------------------------------------------- environment
\* A process the supervisor did not spawn binds the contended port.
ExternalAppears(p) ==
    /\ Idle
    /\ p \in ExternalPids
    /\ ~os[p].alive
    /\ os' = [os EXCEPT ![p] = Running(ContendedPort, p = RecognizedPid)]
    /\ UNCHANGED <<llama_server_bin, proc, pid, command, anon, nextPid, log, call, poll, dec,
                   cli, peer, thr, env, cls>>

\* Any running process may exit on its own.
ProcessExits(p) ==
    /\ Idle
    /\ os[p].alive
    /\ os' = [os EXCEPT ![p] = Dead]
    /\ UNCHANGED <<llama_server_bin, proc, pid, command, anon, nextPid, log, call, poll, dec,
                   cli, peer, thr, env, cls>>

\* A connection without a PID (for example one in TIME_WAIT) shows up on,
\* or vanishes from, the contended port.
AnonToggles ==
    /\ Idle
    /\ anon' = IF ContendedPort \in anon THEN {} ELSE {ContendedPort}
    /\ UNCHANGED <<llama_server_bin, proc, pid, command, os, nextPid, log, call, poll, dec,
                   cli, peer, thr, env, cls>>

Init ==
    /\ llama_server_bin \in Bins
    /\ proc = None
    /\ pid = None
    /\ command = None
    /\ os = [p \in Pids |-> Dead]
    /\ anon = {}
    /\ nextPid = 1
    /\ log = <<>>
    /\ call = NoCall
    /\ poll = NoPoll
    /\ dec = NoDec
    /\ cli = NoCli
    /\ peer = Instance("llama-server")
    /\ thr = NoThr
    /\ cls = NoCls
    /\ env = NoEnv

Next ==
    \/ \E model \in Models, port \in Ports, strict \in BOOLEAN :
          Start(model, port, <<>>, strict)
    \/ Stop
    \/ IsRunningCall
    \/ Observe
    \/ \E p \in ExternalPids : ExternalAppears(p)
    \/ \E p \in Pids : ProcessExits(p)
    \/ AnonToggles

Spec == Init /\ [][Next]_vars

\* The caller turns to the other ServerManager of the program: from now on
\* the calls are made on it.
Switch ==
    /\ Idle
    /\ llama_server_bin' = peer.llama_server_bin
    /\ proc' = peer.proc
    /\ pid' = peer.pid
    /\ command' = peer.command
    /\ peer' = [llama_server_bin |-> llama_server_bin, proc |-> proc,
                pid |-> pid, command |-> command]
    /\ UNCHANGED <<os, anon, nextPid, log, call, poll, dec, cli, thr, env, cls>>

\* Two supervisors in one program, called in turn.
NextPair ==
    \/ \E model \in Models, port \in Ports, strict \in BOOLEAN :
          Start(model, port, <<>>, strict)
    \/ Stop
    \/ IsRunningCall
    \/ Observe
    \/ Switch
    \/ \E p \in ChildPids : ProcessExits(p)

SpecPair == Init /\ [][NextPair]_vars

\* The supervisor called with every kind of port and args, next to a
\* recognized server that may hold the contended port.
NextConf ==
    \/ \E model \in Models, port \in StartPorts, args \in ArgLists,
          strict \in BOOLEAN :
          Start(model, port, args, strict)
    \/ Stop
    \/ Observe
    \/ ExternalAppears(RecognizedPid)

SpecConf == Init /\ [][NextConf]_vars
\* ================================================================ claims
StartReturned == call.op = "start"
StopReturned == call.op = "stop"

\* The child the returned start call spawned, when it spawned one.
Spawned == nextPid # call.preNext
NewChild == call.preNext

\* Event e comes before event f in the log (both present).
Before(kindA, a, kindB, b) ==
    /\ HasEv(log, kindA, a)
    /\ HasEv(log, kindB, b)
    /\ FirstIdx(log, kindA, a) < FirstIdx(log, kindB, b)

C2_RefusalSpawnsNothing ==
    (StartReturned /\ call.result = "PortConflict") =>
        /\ call.strict
        /\ ~Spawned
        /\ \A p \in Pids : ~HasEv(log, "spawn", p)
        /\ \A p \in ChildPids : p >= call.preNext => ~os[p].alive
        /\ pid = call.prePid

C2_Witness ==
    /\ StartReturned /\ call.result = "PortConflict"
    /\ HasEv(log, "refuse", ForeignPid)
    /\ call.prePid # None

\* C3 (as claimed): at every point the supervisor has at most one live child
\* that it spawned.
C3_AtMostOneLiveChild ==
    Cardinality({p \in ChildPids : os[p].alive}) <= 1

\* C4 (as claimed): whenever the health poll fails after the spawn, start
\* calls terminate on the child before it raises.
C4_AlwaysTerminatesOnFailure ==
    (StartReturned /\ call.result = "TimeoutError") =>
        HasEv(log, "cleanup_terminate", NewChild)

\* C4 (amended): when the health poll fails after the spawn and the child has
\* not exited yet (poll() is None), terminate is called on the child as the
\* last thing before start raises; a child that has already exited gets no
\* terminate call.
C4_TerminatesRunningChildBeforeRaise ==
    (StartReturned /\ call.result = "TimeoutError") =>
        /\ Before("spawn", NewChild, "health_fail", call.port)
        /\ HasEv(log, "poll_running", NewChild) # HasEv(log, "poll_exited", NewChild)
        /\ HasEv(log, "poll_running", NewChild) =>
            /\ log[Len(log)] = Ev("cleanup_terminate", NewChild)
            /\ Before("health_fail", call.port, "cleanup_terminate", NewChild)
        /\ HasEv(log, "poll_exited", NewChild) =>
            /\ NewChild \notin Signalled(log)
            /\ ~os[NewChild].alive

C4_Witness ==
    /\ StartReturned /\ call.result = "TimeoutError"
    /\ log[Len(log)] = Ev("cleanup_terminate", NewChild)

\* C5 (as claimed): after start has failed with the readiness timeout the
\* child it spawned is no longer running.
C5_FailedStartLeavesNoChild ==
    (StartReturned /\ call.result = "TimeoutError") => ~os[NewChild].alive

\* C6: stop never raises and leaves nothing tracked; called with nothing
\* tracked (as the second of two stops in a row is) it terminates nothing.
C6_StopIdempotent ==
    StopReturned =>
        /\ call.result = "ok"
        /\ proc = None /\ pid = None /\ command = None
        /\ call.prePid = None => log = <<>>

\* A stop with nothing tracked after an earlier stop cleared the tracking of
\* a child that is still running.
C6_Witness ==
    /\ StopReturned /\ call.prePid = None
    /\ nextPid > 1
    /\ \E p \in ChildPids : os[p].alive

\* C7: after a stop that had a process tracked, handle, PID and command are
\* cleared, whatever _kill_process did.
C7_StopClearsTracking ==
    (StopReturned /\ call.prePid # None) =>
        proc = None /\ pid = None /\ command = None

\* The terminate call was refused and the process is still running.
C7_Witness ==
    /\ StopReturned /\ call.prePid # None
    /\ log = <<Ev("terminate", call.prePid)>>
    /\ os[call.prePid].alive
    /\ pid = None

C9_FreePortNoReclaim ==
    (StartReturned /\ log[1] = Ev("probe_free", call.port)) =>
        /\ \A port \in Ports : ~HasEv(log, "reclaim", port)
        /\ \A i \in 1..Len(log) :
              log[i][1] \notin {"classify", "refuse", "skip", "nosuch",
                                "terminate", "wait_exited", "wait_timeout", "kill"}
        /\ Signalled(log) \subseteq (IF Spawned THEN {NewChild} ELSE {})
        /\ Spawned => log[2] = Ev("spawn", NewChild)

\* The port was free while processes were running elsewhere.
C9_Witness ==
    /\ StartReturned /\ log[1] = Ev("probe_free", call.port)
    /\ Spawned
    /\ os[ForeignPid].alive
    /\ call.prePid # None /\ os[call.prePid].alive

C10_WitnessStrict ==
    /\ StartReturned /\ call.strict /\ Spawned
    /\ call.prePid # None /\ call.prePid \in call.bound
    /\ Before("terminate", RecognizedPid, "terminate", call.prePid)
    /\ Before("terminate", call.prePid, "spawn", NewChild)

\* C11: is_running() answers true exactly when a PID is tracked and that PID
\* is in the process table at the time of the call: false for a supervisor
\* that tracks nothing (fresh, or after stop), false once the tracked process
\* has disappeared.
C11_IsRunningIffTrackedAndAlive ==
    call.op = "is_running" =>
        /\ (call.result = "True") = (pid # None /\ os[pid].alive)
        /\ call.result \in {"True", "False"}
        /\ pid = None => call.result = "False"
        /\ (pid # None /\ ~os[pid].alive) => call.result = "False"

\* The tracked process has disappeared and is_running() answers false.
C11_Witness ==
    /\ call.op = "is_running"
    /\ call.result = "False"
    /\ pid # None
    /\ ~os[pid].alive

\* ====================================================== wait_for_health
\* Time is counted in ticks of 1/1024 s: with the intervals below every
\* product backoff * 1.5 that the loop forms below the cap is a whole number
\* of ticks, as it is an exact float in the program.
TicksPerSecond == 2 ^ 10

\* min(backoff * 1.5, 5.0): the cap, in seconds.
BackoffCapSeconds == 5

\* timeout: int = 30, the value start passes as well.
DefaultTimeoutSeconds == 30

BackoffCap == BackoffCapSeconds * TicksPerSecond

\* Values of the arguments timeout and interval: the defaults (30 s, 1 s), a
\* short timeout, and intervals of 0 s, 0.5 s and 10 s.
Timeouts == {5 * TicksPerSecond, DefaultTimeoutSeconds * TicksPerSecond}
Intervals == {0, TicksPerSecond \div 2, TicksPerSecond, 10 * TicksPerSecond}

\* What one requests.get(url, timeout=1.0) can come back with, and how long
\* it can take.
Responses == {"200", "503", "ConnectionError"}
ProbeDurations == {TicksPerSecond \div 8, TicksPerSecond}

\* The state of a wait_for_health(port, timeout, interval) call at its first
\* loop test; the clock starts at 0, so the deadline is `timeout`.
PollStart(timeout, interval) ==
    [status |-> "polling", timeout |-> timeout, interval |-> interval,
     now |-> 0, backoff |-> interval, sleeps |-> <<>>, probes |-> 0,
     lastStart |-> 0, lastResp |-> "none"]

\* A loop test that gives up when the next sleep would pass the deadline.
DeadlineOpenNoOvershoot(now, deadline) == now + poll.backoff < deadline

\* The loop test: time.time() < deadline.
DeadlineOpen(now, deadline) == now < deadline

\* ProbeOutcome that lets a transport error leave the loop.
ProbeOutcomeRaises(resp) ==
    IF resp = "200" THEN "ready"
    ELSE IF resp = "ConnectionError" THEN "raise"
    ELSE "retry"

\* Lines 172-177: status 200 returns True, anything else (another status, or
\* an Exception of requests.get) goes on to the sleep.
ProbeOutcome(resp) == IF resp = "200" THEN "ready" ELSE "retry"

\* backoff = min(backoff * 1.5, 5.0)
NextBackoff(backoff) ==
    IF (backoff * 3) \div 2 < BackoffCap THEN (backoff * 3) \div 2
    ELSE BackoffCap

\* One pass through the loop body: a probe that takes `dur` and comes back
\* with `resp`, then the sleep and the new backoff.
PollProbe(resp, dur) ==
    /\ poll.status = "polling"
    /\ DeadlineOpen(poll.now, poll.timeout)
    /\ LET out == ProbeOutcome(resp)
           probed == [poll EXCEPT !.probes = @ + 1, !.lastStart = poll.now,
                                  !.lastResp = resp, !.now = @ + dur]
       IN  poll' = IF out = "ready" THEN [probed EXCEPT !.status = "ready"]
                   ELSE IF out = "raise" THEN [probed EXCEPT !.status = "raised"]
                   ELSE [probed EXCEPT !.now = @ + poll.backoff,
                                       !.sleeps = Append(@, poll.backoff),
                                       !.backoff = NextBackoff(poll.backoff)]
    /\ UNCHANGED <<llama_server_bin, proc, pid, command, os, anon, nextPid,
                   log, call, dec,
                   cli, peer, thr, env, cls>>

\* The loop test fails: raise TimeoutError.
PollExpire ==
    /\ poll.status = "polling"
    /\ ~DeadlineOpen(poll.now, poll.timeout)
    /\ poll' = [poll EXCEPT !.status = "timeout"]
    /\ UNCHANGED <<llama_server_bin, proc, pid, command, os, anon, nextPid,
                   log, call, dec,
                   cli, peer, thr, env, cls>>

InitPoll ==
    /\ llama_server_bin = "llama-server"
    /\ proc = None
    /\ pid = None
    /\ command = None
    /\ os = [p \in Pids |-> Dead]
    /\ anon = {}
    /\ nextPid = 1
    /\ log = <<>>
    /\ call = NoCall
    /\ dec = NoDec
    /\ cli = NoCli
    /\ peer = Instance("llama-server")
    /\ thr = NoThr
    /\ cls = NoCls
    /\ env = NoEnv
    /\ \E timeout \in Timeouts, interval \in Intervals :
          poll = PollStart(timeout, interval)

NextPoll ==
    \/ \E resp \in Responses, dur \in ProbeDurations : PollProbe(resp, dur)
    \/ PollExpire

\* The loop is sequential code: it keeps taking its next step.
SpecPoll == InitPoll /\ [][NextPoll]_vars /\ WF_vars(NextPoll)

\* C12: the poller reports ready only on a probe that came back with status
\* 200; any other status and any transport error leave it polling (or timed
\* out, once the deadline has passed), never ready and never aborted.
C12_ReadyOnlyOn200 ==
    /\ poll.status \in {"polling", "ready", "timeout"}
    /\ poll.status = "ready" <=> poll.lastResp = "200"
    /\ poll.lastResp \in Responses \ {"200"} =>
        /\ Len(poll.sleeps) = poll.probes
        /\ poll.now < poll.timeout => poll.status = "polling"

\* Ready on a 200 that followed a transport error.
C12_Witness ==
    /\ poll.status = "ready"
    /\ poll.probes >= 2
    /\ Len(poll.sleeps) = poll.probes - 1

\* C13 (as claimed): for every initial interval the sleeps never decrease
\* from one to the next and none exceeds the cap.
C13_SleepsMonotoneAndCapped ==
    \A i \in 1..Len(poll.sleeps) :
        /\ poll.sleeps[i] <= BackoffCap
        /\ i > 1 => poll.sleeps[i - 1] <= poll.sleeps[i]

\* What has to hold in every state of a poll for C14.
PollBounded ==
    /\ poll.probes > 0 => poll.lastStart < poll.timeout
    /\ poll.status = "timeout" => poll.now >= poll.timeout
    /\ (poll.status # "polling" /\ poll.lastResp # "200") =>
            poll.status = "timeout"

\* C14: the poller always comes to an end; without a 200 the end is the
\* timeout error, raised no earlier than `timeout` after the start, and no
\* probe starts at or after the deadline.
C14_PollerTerminates ==
    /\ [] PollBounded
    /\ <> (poll.status # "polling")

\* Timed out after several probes that never saw a 200.
C14_Witness ==
    /\ poll.status = "timeout"
    /\ poll.probes >= 3
    /\ poll.now >= poll.timeout

\* ========================================================== stream_chat
\* Longest line sequence the stream delivers.
MaxLines == 3

\* JSON values as json.loads builds them, tagged with their Python type.
JNull == [t |-> "null"]
JNum(n) == [t |-> "num", v |-> n]
JStr(str) == [t |-> "str", v |-> str]
JList(items) == [t |-> "list", v |-> items]
JDict(fields) == [t |-> "dict", v |-> fields]
EmptyDict == JDict(<<>>)
EmptyStr == JStr("")

\* What a line carries after its field name: text that is not JSON, or the
\* JSON text of a value.
Text(str) == [k |-> "text", s |-> str]
Json(value) == [k |-> "json", v |-> value]

\* A line as iter_lines hands it over: the field name with its colon at the
\* start of the line ("" when the line has none), then `lead` blanks, the
\* body and `trail` blanks.
Line(head, lead, body, trail) ==
    [head |-> head, lead |-> lead, body |-> body, trail |-> trail]
DataLine(body) == Line("data:", 1, body, 0)
Blank == Line("", 0, Text(""), 0)

\* An event record with one choice.
Record(choice) == JDict([choices |-> JList(<<choice>>)])
Delta(str) == JDict([delta |-> JDict([content |-> JStr(str)])])

\* The lines the stream is made of: the lines of the unit tests, records
\* with several of the text fields or several choices, and JSON that is not
\* an event record.
Lines ==
    { Blank,
      Line("event:", 1, Text("message"), 0),
      Line("meta:", 0, Json(Record(Delta("X"))), 0),
      DataLine(Text("[DONE]")),
      Line("data:", 0, Text("[DONE]"), 1),
      DataLine(Text("{not-json}")),
      DataLine(Json(Record(Delta("Hel")))),
      DataLine(Json(Record(Delta("lo")))),
      DataLine(Json(Record(JDict([delta |-> JDict([role |-> JStr("assistant")])])))),
      DataLine(Json(Record(JDict([text |-> JStr("T")])))),
      DataLine(Json(Record(JDict([message |-> JDict([content |-> JStr("M")])])))),
      DataLine(Json(Record(JDict([delta |-> JDict([content |-> JStr("D")]),
                                  text |-> JStr("T1"),
                                  message |-> JDict([content |-> JStr("M1")])])))),
      DataLine(Json(Record(JDict([delta |-> JDict([content |-> EmptyStr]),
                                  text |-> JStr("T2"),
                                  message |-> JDict([content |-> JStr("M2")])])))),
      DataLine(Json(JDict([choices |-> JList(<<JDict([delta |-> EmptyDict]),
                                               Delta("second")>>)]))),
      DataLine(Json(JDict([choices |-> JList(<<>>)]))),
      DataLine(Json(JNum(42))),
      DataLine(Json(Record(JNum(5)))),
      DataLine(Json(JDict([choices |-> JNum(5)]))) }

\* Python truth value of a JSON value.
Truthy(value) ==
    CASE value.t = "null" -> FALSE
      [] value.t = "num" -> value.v # 0
      [] value.t = "str" -> value.v # ""
      [] value.t = "list" -> Len(value.v) > 0
      [] value.t = "dict" -> DOMAIN value.v # {}

\* a or b
PyOr(a, b) == IF Truthy(a) THEN a ELSE b

\* dict.get(key)
Get(dict, key) == IF key \in DOMAIN dict.v THEN dict.v[key] ELSE JNull

\* line.startswith(prefix), for a prefix that is a field name with its colon.
StartsWith(line, prefix) == line.head = prefix

\* line[5:].strip(): what follows a five-character field name, without the
\* blanks around it; after any other start of line, text that is not JSON.
Data(line) ==
    IF line.head \in {"data:", "meta:"} THEN line.body ELSE Text("?")

\* The test of lines 62-69 with only the blank-line test left.
IgnoredBlankOnly(line) == line = Blank

\* Lines 62-69: not line, "event:" lines, lines that do not start "data:".
Ignored(line) ==
    \/ line = Blank
    \/ StartsWith(line, "event:")
    \/ ~StartsWith(line, "data:")

\* A sentinel test that never matches.
IsSentinelNever(data) == FALSE

\* data == "[DONE]"
IsSentinel(data) == data = Text("[DONE]")

\* The text of a choice with the message content looked at first.
ExtractTextMessageFirst(choice) ==
    LET message == PyOr(Get(choice, "message"), EmptyDict)
        text1 == IF message.t = "dict"
                 THEN PyOr(Get(message, "content"), EmptyStr) ELSE EmptyStr
        text2 == IF ~Truthy(text1)
                 THEN PyOr(Get(choice, "text"), EmptyStr) ELSE text1
        delta == PyOr(Get(choice, "delta"), EmptyDict)
    IN  IF ~Truthy(text2) /\ delta.t = "dict"
        THEN PyOr(Get(delta, "content"), EmptyStr) ELSE text2

\* Lines 86-98, for a choice that is a dict: delta content, then text, then
\* message content.
ExtractText(choice) ==
    LET delta == PyOr(Get(choice, "delta"), EmptyDict)
        text1 == IF delta.t = "dict"
                 THEN PyOr(Get(delta, "content"), EmptyStr) ELSE EmptyStr
        text2 == IF ~Truthy(text1)
                 THEN PyOr(Get(choice, "text"), EmptyStr) ELSE text1
    IN  IF ~Truthy(text2)
        THEN LET message == PyOr(Get(choice, "message"), EmptyDict)
             IN  IF message.t = "dict"
                 THEN PyOr(Get(message, "content"), EmptyStr) ELSE text2
        ELSE text2

\* A yield test that lets every text through.
ShouldYieldAlways(text) == TRUE

\* if text:
ShouldYield(text) == Truthy(text)

Skip == [kind |-> "skip"]
Raise(error) == [kind |-> "raise", error |-> error]

\* Lines 81-101 for a parsed payload. payload.get and choice.get exist only
\* on a dict (AttributeError otherwise); choices[0] is a TypeError on a
\* number and a KeyError on a dict.
DecodeRecord(payload) ==
    IF payload.t # "dict" THEN Raise("AttributeError")
    ELSE LET choices == PyOr(Get(payload, "choices"), JList(<<>>))
         IN  IF ~Truthy(choices) THEN Skip
             ELSE IF choices.t = "num" THEN Raise("TypeError")
             ELSE IF choices.t = "dict" THEN Raise("KeyError")
             ELSE IF choices.t = "str" THEN Raise("AttributeError")
             ELSE LET choice == PyOr(choices.v[1], EmptyDict)
                  IN  IF choice.t # "dict" THEN Raise("AttributeError")
                      ELSE LET text == ExtractText(choice)
                           IN  IF ShouldYield(text)
                               THEN [kind |-> "token", text |-> text]
                               ELSE Skip

\* One pass through the body of the for loop (lines 62-101).
DecodeLine(line) ==
    IF Ignored(line) THEN Skip
    ELSE LET data == Data(line)
         IN  IF IsSentinel(data) THEN [kind |-> "done"]
             ELSE IF data.k # "json" THEN Skip
             ELSE DecodeRecord(data.v)

\* A stream_chat generator before its first next(): nothing consumed, the
\* request not sent yet (the body of a generator function runs from the
\* first next() on).  The response, once there, has a 2xx status.
DecStart(lines) ==
    [status |-> "open", lines |-> lines, pos |-> 0,
     emitted |-> <<>>, src |-> <<>>, error |-> "none", resp |-> "unopened"]

\* A yield that leaves out a token equal to the one before it.
YieldDropsRepeat(d, i, text) ==
    IF d.emitted # <<>> /\ d.emitted[Len(d.emitted)] = text THEN d
    ELSE [d EXCEPT !.emitted = Append(@, text), !.src = Append(@, i)]

\* yield text, for the text of line i.
Yield(d, i, text) ==
    [d EXCEPT !.emitted = Append(@, text), !.src = Append(@, i)]

RECURSIVE Advance(_)
\* The generator runs from where it stands to its next yield, to the end of
\* the stream or of the loop (break), or to an exception.
Advance(d) ==
    IF d.pos = Len(d.lines) THEN [d EXCEPT !.status = "exhausted"]
    ELSE LET i == d.pos + 1
             out == DecodeLine(d.lines[i])
             read == [d EXCEPT !.pos = i]
         IN  CASE out.kind = "skip" -> Advance(read)
               [] out.kind = "done" -> [read EXCEPT !.status = "exhausted"]
               [] out.kind = "raise" ->
                    [read EXCEPT !.status = "raised", !.error = out.error]
               [] out.kind = "token" -> Yield(read, i, out.text)

\* Line 59, reached by the first next(): with self.client.stream(...) as resp
Enter(d) == IF d.resp = "unopened" THEN [d EXCEPT !.resp = "open"] ELSE d

\* The with block is left when the generator ends or raises: the response
\* is closed.
Leave(d) == IF d.status # "open" THEN [d EXCEPT !.resp = "closed"] ELSE d

\* GeneratorClose that leaves the response open.
GeneratorCloseKeepsResponse(d) == [d EXCEPT !.status = "closed"]

\* close() on the generator (what dropping it comes to): GeneratorExit is
\* raised at the yield where it stands and leaves the with block; a
\* generator that was never started just ends.
GeneratorClose(d) ==
    [d EXCEPT !.status = "closed",
              !.resp = IF @ = "open" THEN "closed" ELSE @]

\* The consumer asks for the next token.
StreamChatNext ==
    /\ dec.status = "open"
    /\ dec' = Leave(Advance(Enter(dec)))
    /\ UNCHANGED <<llama_server_bin, proc, pid, command, os, anon, nextPid,
                   log, call, poll,
                   cli, peer, thr, env, cls>>

\* Every sequence of at most MaxLines lines.
Streams == UNION {[1..n -> Lines] : n \in 0..MaxLines}

InitDec ==
    /\ llama_server_bin = "llama-server"
    /\ proc = None
    /\ pid = None
    /\ command = None
    /\ os = [p \in Pids |-> Dead]
    /\ anon = {}
    /\ nextPid = 1
    /\ log = <<>>
    /\ call = NoCall
    /\ poll = NoPoll
    /\ cli = NoCli
    /\ peer = Instance("llama-server")
    /\ thr = NoThr
    /\ cls = NoCls
    /\ env = NoEnv
    /\ \E lines \in Streams : dec = DecStart(lines)

NextDec == StreamChatNext

SpecDec == InitDec /\ [][NextDec]_vars

\* The consumer abandons the stream.
StreamChatClose ==
    /\ dec.status = "open"
    /\ dec' = GeneratorClose(dec)
    /\ UNCHANGED <<llama_server_bin, proc, pid, command, os, anon, nextPid,
                   log, call, poll,
                   cli, peer, thr, env, cls>>

\* A consumer that may stop asking at any point.
NextPull ==
    \/ StreamChatNext
    \/ StreamChatClose

SpecPull == InitDec /\ [][NextPull]_vars

\* The lines read so far, and whether line i has given a token.
Consumed == 1..dec.pos
Emits(i) == \E k \in 1..Len(dec.src) : dec.src[k] = i

\* C15: the emitted tokens are, in the order of the lines, exactly the
\* tokens of the lines read so far: one token for each line that gives one,
\* none for the others, nothing twice, nothing left out.
C15_TokensInLineOrder ==
    /\ Len(dec.emitted) = Len(dec.src)
    /\ \A k \in 1..Len(dec.src) :
        /\ dec.src[k] \in Consumed
        /\ DecodeLine(dec.lines[dec.src[k]]) =
                [kind |-> "token", text |-> dec.emitted[k]]
        /\ k > 1 => dec.src[k - 1] < dec.src[k]
    /\ \A i \in Consumed :
            DecodeLine(dec.lines[i]).kind = "token" => Emits(i)

\* The same token from two lines with an ignored line between them.
C15_Witness ==
    /\ dec.src = <<1, 3>>
    /\ dec.emitted[1] = dec.emitted[2]

\* A data line whose trimmed payload is [DONE].
SentinelLine(line) == line.head = "data:" /\ line.body = Text("[DONE]")

\* C16: once a [DONE] data line has been read, it is the last line read,
\* the generator has ended without an error, and every token comes from a
\* line before it.
C16_SentinelStopsDecoding ==
    \A i \in Consumed :
        SentinelLine(dec.lines[i]) =>
            /\ dec.pos = i
            /\ dec.status = "exhausted"
            /\ dec.error = "none"
            /\ \A k \in 1..Len(dec.src) : dec.src[k] < i

\* Stopped at a sentinel that is followed by a line carrying a token.
C16_Witness ==
    /\ dec.status = "exhausted"
    /\ dec.pos = 2
    /\ Len(dec.lines) = 3
    /\ SentinelLine(dec.lines[2])
    /\ dec.lines[2].trail = 1
    /\ dec.src = <<1>>
    /\ dec.lines[3] = dec.lines[1]

\* C17 (as claimed): no data line makes stream_chat raise.
C17_NoLineRaises == dec.status # "raised"

\* An event record in the expected shape: a data line with a JSON object
\* whose choices, if any, are a list of objects.
WellFormed(line) ==
    /\ line.head = "data:"
    /\ line.body.k = "json"
    /\ line.body.v.t = "dict"
    /\ "choices" \in DOMAIN line.body.v.v =>
        /\ line.body.v.v.choices.t = "list"
        /\ \A n \in 1..Len(line.body.v.v.choices.v) :
                line.body.v.v.choices.v[n].t = "dict"

HasChoice(line) ==
    /\ "choices" \in DOMAIN line.body.v.v
    /\ line.body.v.v.choices.v # <<>>

FirstChoice(line) == line.body.v.v.choices.v[1]

\* The field is there and is a non-empty string.
NonEmpty(object, field) ==
    /\ field \in DOMAIN object.v
    /\ object.v[field].t = "str"
    /\ object.v[field].v # ""

HasDeltaContent(choice) ==
    /\ "delta" \in DOMAIN choice.v
    /\ choice.v.delta.t = "dict"
    /\ NonEmpty(choice.v.delta, "content")

HasMessageContent(choice) ==
    /\ "message" \in DOMAIN choice.v
    /\ choice.v.message.t = "dict"
    /\ NonEmpty(choice.v.message, "content")

NoText == [t |-> "none"]

\* The text the priority rule picks for a choice.
Expected(choice) ==
    IF HasDeltaContent(choice) THEN choice.v.delta.v.content
    ELSE IF NonEmpty(choice, "text") THEN choice.v.text
    ELSE IF HasMessageContent(choice) THEN choice.v.message.v.content
    ELSE NoText

\* C18: a token of a record is the text of its first choice by priority:
\* delta content, else text, else message content; and a record whose first
\* choice has such a text gives that token.
C18_FirstChoiceByPriority ==
    /\ \A k \in 1..Len(dec.src) :
            WellFormed(dec.lines[dec.src[k]]) =>
                /\ HasChoice(dec.lines[dec.src[k]])
                /\ dec.emitted[k] = Expected(FirstChoice(dec.lines[dec.src[k]]))
    /\ \A i \in Consumed :
            (/\ WellFormed(dec.lines[i])
             /\ HasChoice(dec.lines[i])
             /\ Expected(FirstChoice(dec.lines[i])) # NoText) => Emits(i)

\* Delta content taken over text and message, text taken over message, and
\* a record with text only in its second choice that gave nothing.
C18_Witness ==
    /\ dec.emitted = <<JStr("D"), JStr("T2")>>
    /\ dec.pos = 3
    /\ WellFormed(dec.lines[3])
    /\ Len(dec.lines[3].body.v.v.choices.v) = 2

\* A record with no text in any of the three places.
AllEmpty(line) ==
    /\ WellFormed(line)
    /\ HasChoice(line) => Expected(FirstChoice(line)) = NoText

\* C19: no emitted token is empty, and a record with no text gives no
\* token, raises nothing and does not end the stream (the generator only
\* stops at it when it is the last line).
C19_NoEmptyToken ==
    /\ \A k \in 1..Len(dec.emitted) :
            dec.emitted[k].t = "str" /\ dec.emitted[k].v # ""
    /\ \A i \in Consumed :
            AllEmpty(dec.lines[i]) =>
                /\ ~Emits(i)
                /\ dec.pos = i =>
                    /\ dec.status = "exhausted"
                    /\ dec.error = "none"
                    /\ i = Len(dec.lines)

\* A role-only delta and an empty choices list, then a token.
C19_Witness ==
    /\ dec.src = <<3>>
    /\ AllEmpty(dec.lines[1])
    /\ HasChoice(dec.lines[1])
    /\ "role" \in DOMAIN FirstChoice(dec.lines[1]).v.delta.v
    /\ AllEmpty(dec.lines[2])
    /\ ~HasChoice(dec.lines[2])

RECURSIVE DecodeAll(_)
\* The generator run to its end.
DecodeAll(d) == IF d.status # "open" THEN d ELSE DecodeAll(Advance(d))

\* The stream without its blank lines, event lines and other lines that do
\* not start with the data field name.
DataLinesOnly(lines) == SelectSeq(lines, LAMBDA line : line.head = "data:")

\* C20: a stream and the same stream without its ignored lines give the
\* same tokens and end the same way.
C20_IgnoredLinesChangeNothing ==
    dec.status # "open" =>
        LET bare == DecodeAll(DecStart(DataLinesOnly(dec.lines)))
        IN  /\ dec.emitted = bare.emitted
            /\ dec.status = bare.status
            /\ dec.error = bare.error

\* A token after a blank line and a line with another field name whose
\* body is a record with text.
C20_Witness ==
    /\ dec.status = "exhausted"
    /\ Len(dec.lines) = 3
    /\ dec.lines[1] = Blank
    /\ dec.lines[2].head = "meta:"
    /\ dec.src = <<3>>

\* The line that gave the last token delivered, 0 before the first.
LastSrc == IF dec.src = <<>> THEN 0 ELSE dec.src[Len(dec.src)]

\* s is an initial part of t.
IsPrefix(s, t) == Len(s) <= Len(t) /\ \A k \in 1..Len(s) : s[k] = t[k]

\* C37: while the consumer may still ask, and after it has abandoned the
\* stream, no line has been read beyond the one that gave the last token
\* delivered (none at all before the first request); the tokens delivered
\* are an initial part of those of a full run; and after the abandon the
\* response is not left open.
C37_PullBasedAbandonSafe ==
    /\ dec.status \in {"open", "closed"} => dec.pos = LastSrc
    /\ IsPrefix(dec.emitted, DecodeAll(DecStart(dec.lines)).emitted)
    /\ dec.status = "closed" => dec.resp # "open"
    /\ dec.resp = "unopened" => dec.pos = 0 /\ dec.emitted = <<>>

\* Abandoned after the first of two tokens, with lines left unread.
C37_Witness ==
    /\ dec.status = "closed"
    /\ dec.resp = "closed"
    /\ Len(dec.emitted) = 1
    /\ dec.pos < Len(dec.lines)
    /\ Len(DecodeAll(DecStart(dec.lines)).emitted) = 2

\* ================================================================== cli
\* The interactive shell of seq_llm.cli.  state.manager is the supervisor
\* instance whose attributes are proc, pid and command; while the shell
\* holds no manager these are None.  log holds the events of the command
\* that has just been handled.
Profiles == {"brain", "coder"}

\* port: of the two profiles of the default configuration.
PortOf(name) == IF name = "brain" THEN ContendedPort ELSE 8082

\* What a command of the shell leaves behind for the next one to look at.
Last(op, name, result, hadManager, oldPid, startResult) ==
    [op |-> op, name |-> name, result |-> result, hadManager |-> hadManager,
     oldPid |-> oldPid, startResult |-> startResult]

NoLast == Last("none", "none", "none", FALSE, None, "none")

\* The session when main() has loaded the configuration.
CliStart ==
    [pc |-> "boot", manager |-> FALSE, active_profile |-> "none",
     lastStart |-> "none", exitStop |-> FALSE, last |-> NoLast]

\* The values a command works on: the process table, the log, the manager's
\* attributes, the session's two fields and the outcome of the manager's
\* start_cmd.
Work ==
    [os |-> os, log |-> <<>>, proc |-> proc, pid |-> pid, command |-> command,
     nextPid |-> nextPid, manager |-> cli.manager,
     active_profile |-> cli.active_profile, res |-> cli.lastStart]

\* ServerManager.stop on the instance whose tracked PID is p; what
\* _kill_process raises is swallowed.
StopOf(st, p, outcome) ==
    IF p # None
    THEN LET k == KillProcess(st, p, outcome) IN St(k.os, k.log, st.err)
    ELSE st

\* CliStopExisting without the call of stop.
CliStopExistingNoStop(w, outcome) ==
    IF w.manager
    THEN [w EXCEPT !.proc = None, !.pid = None, !.command = None,
                   !.manager = FALSE, !.active_profile = "none",
                   !.res = "none"]
    ELSE w

\* CliStopExisting that keeps active_profile.
CliStopExistingKeepsActive(w, outcome) ==
    IF w.manager
    THEN LET k == StopOf(St(w.os, Append(w.log, Ev("stop_old", w.pid)), "none"),
                         w.pid, outcome)
         IN  [w EXCEPT !.os = k.os, !.log = k.log, !.proc = None, !.pid = None,
                       !.command = None, !.manager = FALSE,
                       !.res = "none"]
    ELSE w

\* Lines 89-93: stop the manager the session holds and let go of it.
CliStopExisting(w, outcome) ==
    IF w.manager
    THEN LET k == StopOf(St(w.os, Append(w.log, Ev("stop_old", w.pid)), "none"),
                         w.pid, outcome)
         IN  [w EXCEPT !.os = k.os, !.log = k.log, !.proc = None, !.pid = None,
                       !.command = None, !.manager = FALSE,
                       !.active_profile = "none", !.res = "none"]
    ELSE w

\* Line 106: a new ServerManager.
CliNewManager(w) ==
    [w EXCEPT !.manager = TRUE, !.proc = None, !.pid = None, !.command = None,
              !.log = Append(@, Ev("new_manager", None))]

\* ServerManager.start_cmd(cmd, port, startup_timeout) on a new manager:
\* probe, strict reclaim, spawn of the command as given, health poll; a
\* child that does not become healthy is terminated before the error is
\* raised.
StartCmd(w, port, order, outs, beh) ==
    LET st0 == St(w.os, Append(w.log, Ev("start_cmd", port)), "none")
        rec == IF IsPortOpen(w.os, anon, port)
               THEN ReclaimPortProcesses(st0, port, order, TRUE, outs, FALSE,
                                         w.pid)
               ELSE st0
        new == w.nextPid
    IN  IF rec.err # "none"
        THEN [w EXCEPT !.os = rec.os, !.log = rec.log, !.res = rec.err]
        ELSE IF beh = "spawn_error"
        THEN [w EXCEPT !.os = rec.os,
                       !.log = Append(rec.log, Ev("spawn_error", None)),
                       !.res = "FileNotFoundError"]
        ELSE IF beh = "healthy"
        THEN [w EXCEPT !.os = [rec.os EXCEPT ![new] =
                                    Running(port, IsAllowedBin(llama_server_bin))],
                       !.log = rec.log \o <<Ev("spawn", new), Ev("health_ok", port)>>,
                       !.proc = new, !.pid = new, !.command = <<"cmd", port>>,
                       !.nextPid = new + 1, !.res = "ok"]
        ELSE [w EXCEPT !.os = [rec.os EXCEPT ![new] = Dead],
                       !.log = rec.log \o <<Ev("spawn", new), Ev("health_fail", port),
                                            Ev("cleanup_terminate", new)>>,
                       !.proc = new, !.pid = new, !.command = <<"cmd", port>>,
                       !.nextPid = new + 1, !.res = "TimeoutError"]

\* CliOnStartError without the call of stop.
CliOnStartErrorNoStop(w, outcome) ==
    [w EXCEPT !.proc = None, !.pid = None, !.command = None, !.manager = FALSE]

\* Lines 118-122: stop the new manager and let go of it.
CliOnStartError(w, outcome) ==
    LET k == StopOf(St(w.os, Append(w.log, Ev("stop_new", w.pid)), "none"),
                    w.pid, outcome)
    IN  [w EXCEPT !.os = k.os, !.log = k.log, !.proc = None, !.pid = None,
                  !.command = None, !.manager = FALSE]

\* Lines 124-126.
CliStarted(w, name) == [w EXCEPT !.active_profile = name]

\* Lines 241-245: an exception that leaves main(); the manager is stopped,
\* and stays in state.manager.
CliOnException(w, outcome) ==
    IF w.manager
    THEN LET k == StopOf(St(w.os, Append(w.log, Ev("exit_stop", w.pid)), "none"),
                         w.pid, outcome)
         IN  [w EXCEPT !.os = k.os, !.log = k.log, !.proc = None, !.pid = None,
                       !.command = None]
    ELSE w

\* CliRejected with the running server stopped before the tests are made.
CliRejectedStopsFirst(w) == CliStopExisting(w, "exit")

\* Lines 56-84: one of the tests fails, start_profile prints the error and
\* returns False; nothing has been assigned or called on the manager.
CliRejected(w) == w

\* The command is over: w becomes the state.
CliDone(w, pc, exitStop, last) ==
    /\ os' = w.os
    /\ log' = w.log
    /\ proc' = w.proc
    /\ pid' = w.pid
    /\ command' = w.command
    /\ nextPid' = w.nextPid
    /\ cli' = [pc |-> pc, manager |-> w.manager,
               active_profile |-> w.active_profile,
               lastStart |-> IF w.manager THEN w.res ELSE "none",
               exitStop |-> exitStop, last |-> last]
    /\ UNCHANGED <<llama_server_bin, anon, call, poll, dec, peer, thr, env, cls>>

\* The outcomes of a kill that matter for a process: one outcome when there
\* is nothing to kill.
KillOutcomesFor(table, p) ==
    IF p # None /\ table[p].alive THEN KillOutcomes ELSE {"exit"}

\* CLIState.start_profile(name), and what main() and the handlers around it
\* do with its outcome.  `checks` is the outcome of the tests of lines 56-84,
\* `build` that of build_llama_server_command.
CliStartProfile(name) ==
    /\ cli.pc = "repl" \/ (cli.pc = "boot" /\ name = "brain")
    /\ nextPid <= MaxSpawn
    /\ \E checks \in {"ok", "missing"}, build \in {"ok", "error"},
          stopOld \in KillOutcomesFor(os, pid) :
        LET had == cli.manager
            last(result, startResult) ==
                Last("start_profile", name, result, had, pid, startResult)
            w1 == CliStopExisting(Work, stopOld)
            w2 == CliNewManager(w1)
        IN  IF checks = "missing"
            THEN /\ build = "ok" /\ stopOld = "exit"
                 /\ CliDone(CliRejected(Work), "repl", FALSE,
                            Last("start_profile", name, "False", had, pid,
                                 "rejected"))
            ELSE IF build = "error"
            THEN CliDone(w1, "repl", FALSE, last("False", "none"))
            ELSE \E order \in Orders(ConnsOn(w2.os, anon, PortOf(name))),
                    outs \in Outcomes(PidsOn(w2.os, PortOf(name))),
                    beh \in ChildBehaviours :
                    LET w3 == StartCmd(w2, PortOf(name), order, outs, beh)
                    IN  IF w3.res = "ok"
                        THEN CliDone(CliStarted(w3, name), "repl", FALSE,
                                     last("True", "ok"))
                        ELSE \E after \in KillOutcomesFor(w3.os, w3.pid) :
                            IF w3.res \in {"FileNotFoundError", "TimeoutError"}
                            THEN CliDone(CliOnStartError(w3, after), "repl",
                                         FALSE, last("False", w3.res))
                            ELSE CliDone(CliOnException(w3, after), "exited",
                                         TRUE, last("raised", w3.res))

\* The configuration has no profile "brain": main() goes to the prompt.
CliNoBrain ==
    /\ cli.pc = "boot"
    /\ cli' = [cli EXCEPT !.pc = "repl"]
    /\ log' = <<>>
    /\ UNCHANGED <<llama_server_bin, proc, pid, command, os, anon, nextPid,
                   call, poll, dec, peer, thr, env, cls>>

\* A chat message: lines 205-207 refuse it without an active profile and a
\* manager, otherwise stream_chat is called.
CliChat ==
    /\ cli.pc = "repl"
    /\ cli' = [cli EXCEPT !.last =
                 Last("chat", cli.active_profile,
                      IF cli.active_profile = "none" \/ ~cli.manager
                      THEN "refused" ELSE "streamed",
                      cli.manager, pid, cli.lastStart)]
    /\ log' = <<>>
    /\ UNCHANGED <<llama_server_bin, proc, pid, command, os, anon, nextPid,
                   call, poll, dec, peer, thr, env, cls>>

\* /quit, /exit or the end of the input: the loop is left and main() returns.
CliQuit ==
    /\ cli.pc = "repl"
    /\ cli' = [cli EXCEPT !.pc = "exited",
                          !.last = Last("quit", "none", "none", cli.manager,
                                        pid, "none")]
    /\ log' = <<>>
    /\ UNCHANGED <<llama_server_bin, proc, pid, command, os, anon, nextPid,
                   call, poll, dec, peer, thr, env, cls>>

\* Ctrl-C at the prompt: lines 236-240.
CliInterrupt ==
    /\ cli.pc = "repl"
    /\ \E outcome \in KillOutcomesFor(os, pid) :
        CliDone(CliOnException(Work, outcome), "exited", cli.manager,
                Last("interrupt", "none", "none", cli.manager, pid, "none"))

InitCli ==
    /\ llama_server_bin \in Bins
    /\ proc = None
    /\ pid = None
    /\ command = None
    /\ os = [p \in Pids |-> Dead]
    /\ anon = {}
    /\ nextPid = 1
    /\ log = <<>>
    /\ call = NoCall
    /\ poll = NoPoll
    /\ dec = NoDec
    /\ cli = CliStart
    /\ peer = Instance("llama-server")
    /\ thr = NoThr
    /\ cls = NoCls
    /\ env = NoEnv

NextCli ==
    \/ \E name \in Profiles : CliStartProfile(name)
    \/ CliNoBrain
    \/ CliChat
    \/ CliQuit
    \/ CliInterrupt
    \/ cli.pc # "exited" /\ ExternalAppears(ForeignPid)
    \/ \E p \in ChildPids : cli.pc # "exited" /\ ProcessExits(p)

SpecCli == InitCli /\ [][NextCli]_vars

\* Number of events of a kind in the log.
CountEv(l, kind) == Cardinality({i \in 1..Len(l) : l[i][1] = kind})

\* start_profile has returned (or raised) after passing its tests.
ProfileStarted == cli.last.op = "start_profile" /\ log # <<>>

\* C21 (as claimed): whenever the shell has ended while it held a manager,
\* the way out has called stop on it.
C21_StoppedOnEveryExit ==
    (cli.pc = "exited" /\ cli.manager) => cli.exitStop

\* C22: after start_cmd raised FileNotFoundError or TimeoutError,
\* start_profile has called stop on the new manager exactly once, after the
\* start, holds no manager, has no active profile and has returned False.
C22_FailedStartStopsNewManager ==
    (ProfileStarted
        /\ cli.last.startResult \in {"FileNotFoundError", "TimeoutError"}) =>
        /\ CountEv(log, "stop_new") = 1
        /\ CountEv(log, "start_cmd") = 1
        /\ log[Len(log)][1] \in {"stop_new", "nosuch"}
        /\ \A i, j \in 1..Len(log) :
              (log[i][1] = "start_cmd" /\ log[j][1] = "stop_new") => i < j
        /\ ~cli.manager
        /\ proc = None /\ pid = None /\ command = None
        /\ cli.active_profile = "none"
        /\ cli.last.result = "False"
        /\ cli.pc = "repl"

\* A restart whose new server never became ready.
C22_Witness ==
    /\ ProfileStarted
    /\ cli.last.startResult = "TimeoutError"
    /\ cli.last.hadManager
    /\ HasEv(log, "stop_new", cli.last.oldPid + 1)

\* The children the shell has started that are running.
LiveServers == {p \in ChildPids : os[p].alive}

\* C23 (as claimed): a start_profile that found a manager stopped it once,
\* before the new manager was made and started, and two servers started by
\* the shell are never running together.
C23_NeverTwoServers ==
    /\ Cardinality(LiveServers) <= 1
    /\ (ProfileStarted /\ cli.last.hadManager) =>
            /\ log[1][1] = "stop_old"
            /\ CountEv(log, "stop_old") = 1

\* C23 (amended): a start_profile that found a manager stopped it once,
\* before the new manager was made and started; the old server is still
\* running afterwards only if that stop signalled it and could not end it.
C23_StopsOldBeforeNew ==
    (ProfileStarted /\ cli.last.hadManager) =>
        /\ log[1] = Ev("stop_old", cli.last.oldPid)
        /\ CountEv(log, "stop_old") = 1
        /\ \A i \in 2..Len(log) : log[i][1] \in {"new_manager", "start_cmd"} =>
              /\ CountEv(SubSeq(log, 1, i - 1), "stop_old") = 1
              /\ CountEv(SubSeq(log, 1, i - 1), "spawn") = 0
        /\ (cli.last.oldPid # None /\ os[cli.last.oldPid].alive) =>
              /\ log[2] = Ev("terminate", cli.last.oldPid)
              /\ pid # cli.last.oldPid

\* A restart: the old server is gone and the new one is running.
C23_Witness ==
    /\ ProfileStarted /\ cli.last.hadManager
    /\ cli.last.result = "True"
    /\ ~os[cli.last.oldPid].alive
    /\ HasEv(log, "wait_exited", cli.last.oldPid)
    /\ pid # None /\ os[pid].alive

\* C24: an active profile is set only while a manager is held whose last
\* start returned without error, and stream_chat is called only then.
C24_ActiveOnlyAfterGoodStart ==
    /\ cli.active_profile # "none" => (cli.manager /\ cli.lastStart = "ok")
    /\ (cli.last.op = "chat" /\ cli.last.result = "streamed") =>
            /\ cli.last.name # "none"
            /\ cli.last.hadManager
            /\ cli.last.startResult = "ok"

\* A chat after a restart, and with a server that has since exited.
C24_Witness ==
    /\ cli.last.op = "chat" /\ cli.last.result = "streamed"
    /\ cli.active_profile = "coder"
    /\ nextPid > 2
    /\ ~os[pid].alive

\* ================================================= the child's environment
\* Environments: partial maps from variable names to values.
EnvNames == {"PORT", "PATH", "MODEL_PATH"}
EnvValues == {"9000", "x"}
Envs == UNION {[names -> EnvValues] : names \in SUBSET EnvNames}

\* str(port)
PortStr(port) == IF port = ContendedPort THEN "8081" ELSE "8082"

\* dict.update: the entries of `extra` replace or extend those of `base`.
EnvUpdate(base, extra) ==
    [n \in (DOMAIN base) \cup (DOMAIN extra) |->
        IF n \in DOMAIN extra THEN extra[n] ELSE base[n]]

\* Lines 126-128: env = os.environ.copy(); if extra_env: env.update(extra_env).
\* An empty extra_env stands for None as well.
BuildEnv(parent, extra) ==
    IF DOMAIN extra # {} THEN EnvUpdate(parent, extra) ELSE parent

\* start is called with extra_env = extra while os.environ is parent.
EnvCall(parent, extra, port) ==
    [status |-> "called", parent |-> parent, extra |-> extra, port |-> port,
     child |-> parent]

\* Line 137: Popen(cmd, ..., env=env).
EnvSpawn ==
    /\ env.status = "called"
    /\ env' = [env EXCEPT !.status = "spawned",
                          !.child = BuildEnv(env.parent, env.extra)]
    /\ UNCHANGED <<llama_server_bin, proc, pid, command, os, anon, nextPid,
                   log, call, poll, dec, cli, peer, thr, cls>>

InitEnv ==
    /\ llama_server_bin = "llama-server"
    /\ proc = None
    /\ pid = None
    /\ command = None
    /\ os = [p \in Pids |-> Dead]
    /\ anon = {}
    /\ nextPid = 1
    /\ log = <<>>
    /\ call = NoCall
    /\ poll = NoPoll
    /\ dec = NoDec
    /\ cli = NoCli
    /\ peer = Instance("llama-server")
    /\ thr = NoThr
    /\ cls = NoCls
    /\ \E parent \in Envs, extra \in Envs, port \in Ports :
          env = EnvCall(parent, extra, port)

NextEnv == EnvSpawn

SpecEnv == InitEnv /\ [][NextEnv]_vars

\* C25 (as claimed): the child's environment is the parent's overlaid with
\* the extra variables, and has PORT set to the target port when neither of
\* the two defines PORT.
C25_PortDefaulted ==
    env.status = "spawned" =>
        LET overlaid == EnvUpdate(env.parent, env.extra)
        IN  env.child =
                IF "PORT" \in DOMAIN overlaid THEN overlaid
                ELSE EnvUpdate(overlaid, [n \in {"PORT"} |-> PortStr(env.port)])

\* ========================================== configuration and spawn errors
\* The extra args carry a port flag or a model flag.
ConflictingArgs(args) ==
    \E i \in 1..Len(args) : args[i] \in {"--port", "--model"}

\* The returned start call touched no process: no reclaim, no signal, no
\* spawn.
NothingTouched ==
    /\ ~Spawned
    /\ Signalled(log) = {}
    /\ \A i \in 1..Len(log) : log[i][1] \notin {"reclaim", "spawn"}

\* C26 (as claimed): a start whose args carry a port flag or a model flag is
\* rejected before anything is executed: it touches no process.
C26_ConflictingArgsRejected ==
    (StartReturned /\ ConflictingArgs(call.args)) => NothingTouched

\* C27 (as claimed): a start on a port outside 1..65535 is rejected before
\* any process is touched.
C27_InvalidPortRejected ==
    (StartReturned /\ call.port \notin 1..65535) => NothingTouched

\* C28 (as claimed): after a start whose spawn raised, no child of this
\* start is running and the PID of an earlier process is no longer tracked.
C28_SpawnErrorLeavesNothingTracked ==
    (StartReturned /\ call.result = "OSError") =>
        /\ ~Spawned
        /\ \A p \in ChildPids : p >= call.preNext => ~os[p].alive
        /\ pid = None

\* ------------------------------------------------------------ instances
\* C29: a start, a stop or an is_running on one supervisor, the reclaim of
\* its start included, leaves the tracked handle, PID and command of the
\* other supervisor as they were.
C29_PeerTrackingUntouched ==
    [][(Idle /\ call'.op \in {"start", "stop", "is_running"}) => peer' = peer]_vars

\* A start on one supervisor has reclaimed its port from the child the other
\* supervisor tracks: the child is gone, the other's tracking still names it.
C29_Witness ==
    /\ call.op = "start"
    /\ peer.pid # None
    /\ peer.pid # pid
    /\ HasEv(log, "terminate", peer.pid)
    /\ ~os[peer.pid].alive
    /\ peer.proc = peer.pid

\* ------------------------------------------- concurrent start and stop
\* Two threads call start and stop on the same ServerManager with nothing
\* between them: the class has no lock and no "busy" flag, so the statements
\* of the two calls interleave.  thr[t].pc is the statement thread t runs
\* next.  Every start is start("a.gguf", ContendedPort) and every process
\* exits on SIGTERM, so that a call run alone loses nothing.
RacePort == ContendedPort

\* Threads that will still spawn a child in the call they are in.
ThrPending == {t \in Threads : thr[t].pc \in {"probe", "popen"}}

ThrFrame == UNCHANGED <<llama_server_bin, anon, log, call, poll, dec, cli,
                        peer, env, cls>>

Goto(t, pc) == thr' = [thr EXCEPT ![t] = [pc |-> pc]]

\* Thread t enters start(...).
ThrCallStart(t) ==
    /\ thr[t].pc = "idle"
    /\ nextPid + Cardinality(ThrPending) <= MaxSpawn
    /\ Goto(t, "probe")
    /\ UNCHANGED <<proc, pid, command, os, nextPid>>
    /\ ThrFrame

\* Thread t enters stop().
ThrCallStop(t) ==
    /\ thr[t].pc = "idle"
    /\ Goto(t, "stop_test")
    /\ UNCHANGED <<proc, pid, command, os, nextPid>>
    /\ ThrFrame

\* Lines 130-133: the probe and the reclaim, with self.pid as it is now.  An
\* exception of the reclaim ends the call.
ThrProbe(t) ==
    /\ thr[t].pc = "probe"
    /\ \E order \in Orders(ConnsOn(os, anon, RacePort)) :
        LET rec == StartReclaim(RacePort, order, TRUE,
                                [p \in PidsOn(os, RacePort) |-> "exit"], FALSE)
        IN  /\ os' = rec.os
            /\ Goto(t, IF rec.err = "none" THEN "popen" ELSE "idle")
    /\ UNCHANGED <<proc, pid, command, nextPid>>
    /\ ThrFrame

\* Line 137: self.proc = subprocess.Popen(cmd, ...).  A child that finds the
\* port taken may exit at once.
ThrPopen(t) ==
    /\ thr[t].pc = "popen"
    /\ proc' = nextPid
    /\ nextPid' = nextPid + 1
    /\ \E stays \in (IF PidsOn(os, RacePort) # {} THEN BOOLEAN ELSE {TRUE}) :
        os' = [os EXCEPT ![nextPid] =
                   IF stays
                   THEN Running(RacePort, IsAllowedBin(llama_server_bin))
                   ELSE Dead]
    /\ Goto(t, "set_pid")
    /\ UNCHANGED <<pid, command>>
    /\ ThrFrame

\* Line 138: self.pid = self.proc.pid, with self.proc as it is now; on None
\* the attribute access raises AttributeError and the call ends.
ThrSetPid(t) ==
    /\ thr[t].pc = "set_pid"
    /\ IF proc = None
       THEN /\ Goto(t, "idle")
            /\ UNCHANGED pid
       ELSE /\ pid' = proc
            /\ Goto(t, "set_command")
    /\ UNCHANGED <<proc, command, os, nextPid>>
    /\ ThrFrame

\* Line 139: self.command = cmd.
ThrSetCommand(t) ==
    /\ thr[t].pc = "set_command"
    /\ command' = Cmd("a.gguf", RacePort, <<>>)
    /\ Goto(t, "health")
    /\ UNCHANGED <<proc, pid, os, nextPid>>
    /\ ThrFrame

\* Lines 141-148: the health poll, answered by whatever serves the port, and
\* on its failure the terminate() of self.proc as it is now.
ThrHealth(t) ==
    /\ thr[t].pc = "health"
    /\ \E ok \in (IF PidsOn(os, RacePort) # {} THEN BOOLEAN ELSE {FALSE}) :
        IF ok \/ proc = None
        THEN UNCHANGED os
        ELSE os' = [os EXCEPT ![proc] = Dead]
    /\ Goto(t, "idle")
    /\ UNCHANGED <<proc, pid, command, nextPid>>
    /\ ThrFrame

\* Line 151: if self.pid:
ThrStopTest(t) ==
    /\ thr[t].pc = "stop_test"
    /\ Goto(t, IF pid # None THEN "stop_kill" ELSE "idle")
    /\ UNCHANGED <<proc, pid, command, os, nextPid>>
    /\ ThrFrame

\* Lines 152-155: self._kill_process(self.pid), with self.pid as it is now.
\* psutil.Process(None) is the calling process itself: on a PID reset in the
\* meantime the SIGTERM goes to the program, which ends with all its threads.
ThrStopKill(t) ==
    /\ thr[t].pc = "stop_kill"
    /\ IF pid = None
       THEN /\ thr' = [u \in Threads |-> [pc |-> "terminated"]]
            /\ UNCHANGED os
       ELSE /\ os' = KillProcess(St(os, <<>>, "none"), pid, "exit").os
            /\ Goto(t, "reset_proc")
    /\ UNCHANGED <<proc, pid, command, nextPid>>
    /\ ThrFrame

\* Line 157: self.proc = None
ThrResetProc(t) ==
    /\ thr[t].pc = "reset_proc"
    /\ proc' = None
    /\ Goto(t, "reset_pid")
    /\ UNCHANGED <<pid, command, os, nextPid>>
    /\ ThrFrame

\* Line 158: self.pid = None
ThrResetPid(t) ==
    /\ thr[t].pc = "reset_pid"
    /\ pid' = None
    /\ Goto(t, "reset_command")
    /\ UNCHANGED <<proc, command, os, nextPid>>
    /\ ThrFrame

\* Line 159: self.command = None
ThrResetCommand(t) ==
    /\ thr[t].pc = "reset_command"
    /\ command' = None
    /\ Goto(t, "idle")
    /\ UNCHANGED <<proc, pid, os, nextPid>>
    /\ ThrFrame

NextRace ==
    \/ \E t \in Threads : ThrCallStart(t)
    \/ \E t \in Threads : ThrCallStop(t)
    \/ \E t \in Threads : ThrProbe(t)
    \/ \E t \in Threads : ThrPopen(t)
    \/ \E t \in Threads : ThrSetPid(t)
    \/ \E t \in Threads : ThrSetCommand(t)
    \/ \E t \in Threads : ThrHealth(t)
    \/ \E t \in Threads : ThrStopTest(t)
    \/ \E t \in Threads : ThrStopKill(t)
    \/ \E t \in Threads : ThrResetProc(t)
    \/ \E t \in Threads : ThrResetPid(t)
    \/ \E t \in Threads : ThrResetCommand(t)

SpecRace == Init /\ [][NextRace]_vars

\* Every call has returned.
AllReturned == \A t \in Threads : thr[t].pc = "idle"

\* C30 (as claimed): whatever the interleaving of the start and stop calls
\* of two threads on one supervisor, once the calls have returned every
\* spawned child that is still alive is the tracked one.
C30_NoLiveChildUntracked ==
    AllReturned => \A p \in ChildPids : os[p].alive => pid = p

\* ---------------------------------------------------- reclaim decisions
\* The PID was enumerated on the port and psutil.Process(pid) found no such
\* process (lines 88-91): nothing could be read of it.
LookupFailed(p) == HasEv(log, "nosuch", p) /\ ~HasEv(log, "classify", p)

\* The events of the reclaim in the log of the returned start.
Handled(c) ==
    \/ HasEv(log, "classify", c)
    \/ HasEv(log, "nosuch", c)
    \/ HasEv(log, "skip", c)
    \/ HasEv(log, "refuse", c)

\* C31 (as claimed): a strict start that refuses a foreign process with a PID
\* ends with the port-conflict error, also when the process exits while its
\* identity is read, and leaves the tracking as it was.
C31_RefusalIsPortConflict ==
    (StartReturned /\ call.strict) =>
        \A p \in Pids :
            HasEv(log, "refuse", p) =>
                /\ call.result = "PortConflict"
                /\ ~Spawned
                /\ pid = call.prePid

\* C32: in permissive mode a foreign process on the port gets no terminate
\* and no kill, the start does not end with the refusal, and unless a
\* terminate was denied the loop handles every other connection on the port.
C32_PermissiveSkipsForeign ==
    (StartReturned /\ ~call.strict) =>
        /\ call.result \notin {"PortConflict", "NoSuchProcess"}
        /\ \A p \in call.unknown :
            /\ p \notin Signalled(log)
            /\ \A i \in 1..Len(log) : log[i] # Ev("refuse", p)
            /\ HasEv(log, "classify", p) => HasEv(log, "skip", p)
            /\ (HasEv(log, "skip", p) /\ call.result # "AccessDenied") =>
                  \A q \in call.bound : Handled(q)

\* The foreign process came first, a recognized one after it was terminated,
\* and the foreign process is still running.
C32_Witness ==
    /\ StartReturned /\ ~call.strict
    /\ ForeignPid \in call.unknown
    /\ Before("skip", ForeignPid, "terminate", RecognizedPid)
    /\ os[ForeignPid].alive
    /\ ~os[RecognizedPid].alive

\* C33 (as claimed): a connection that reports no PID, or whose process
\* cannot be looked up, makes a strict start fail without a spawn and is
\* passed over by a permissive one; nothing is terminated for it.
C33_UnreadableRefusedOrSkipped ==
    StartReturned =>
        /\ HasEv(log, "refuse", None) =>
              call.strict /\ call.result = "PortConflict" /\ ~Spawned
        /\ HasEv(log, "skip", None) => ~call.strict
        /\ \A p \in Pids :
            LookupFailed(p) =>
                /\ p \notin Signalled(log)
                /\ call.strict => (call.result # "ok" /\ ~Spawned)

\* C35 (as claimed): a permissive start does not return success while a
\* foreign process it skipped is still bound to the port.
C35_NoSuccessBesideForeign ==
    (StartReturned /\ ~call.strict /\ call.result = "ok") =>
        \A p \in call.unknown : ~(os[p].alive /\ os[p].port = call.port)

\* C36 (as claimed): a strict start that ends with a refusal has sent
\* terminate or kill to no process.
C36_RefusalTerminatesNothing ==
    (StartReturned /\ call.strict
        /\ \E c \in Pids \cup {None} : HasEv(log, "refuse", c)) =>
        Signalled(log) = {}

\* ------------------------------------------------------ tracked state
\* C38: a start that failed with the readiness timeout has spawned a child
\* and tracks exactly that child; a stop with a PID tracked signals that PID
\* and no other and leaves nothing tracked.
C38_FailedStartKeepsChildReachable ==
    /\ (StartReturned /\ call.result = "TimeoutError") =>
          /\ Spawned
          /\ pid = NewChild
          /\ proc = NewChild
    /\ (StopReturned /\ call.prePid # None) =>
          /\ \A i \in 1..Len(log) : log[i][2] = call.prePid
          /\ pid = None

\* The child ignored the SIGTERM of the cleanup: it runs on after the failed
\* start, and the PID a following stop will signal is its PID.
C38_Witness ==
    /\ StartReturned /\ call.result = "TimeoutError"
    /\ os[NewChild].alive
    /\ pid = NewChild
    /\ call.prePid # None /\ call.prePid # NewChild

\* self.command holds a command list (and not None).
CommandSet == ToString(command) # ToString(None)

\* C39: handle, PID and command are set together and cleared together; when
\* set, the PID is that of the handle, and after a start that spawned the
\* three are those of the new child and of the command it was spawned with.
C39_TrackingConsistent ==
    /\ (proc = None) = (pid = None)
    /\ (pid = None) = ~CommandSet
    /\ pid # None => proc = pid
    /\ (StartReturned /\ Spawned) =>
          /\ pid = NewChild
          /\ CommandSet
          /\ command = Cmd("a.gguf", call.port, call.args)

\* A second start on the other port replaced handle, PID and command.
C39_Witness ==
    /\ StartReturned /\ Spawned
    /\ call.prePid # None
    /\ call.port = 8082
    /\ pid = NewChild
    /\ command[5] = 8082

\* ------------------------------------------------- rejected start_profile
\* C40: a start_profile that fails one of its tests (configuration, profile,
\* server binary, model file) changes neither manager nor active_profile,
\* signals no process and leaves the manager's tracking as it was.
C40_RejectionTouchesNothing ==
    [][(/\ cli'.last # cli.last
        /\ cli'.last.op = "start_profile"
        /\ cli'.last.startResult = "rejected") =>
            /\ cli'.manager = cli.manager
            /\ cli'.active_profile = cli.active_profile
            /\ os' = os
            /\ proc' = proc
            /\ pid' = pid
            /\ ToString(command') = ToString(command)
            /\ log' = <<>>]_vars

\* A profile is refused while the server of another one is running.
C40_Witness ==
    /\ cli.last.op = "start_profile"
    /\ cli.last.startResult = "rejected"
    /\ cli.last.name = "coder"
    /\ cli.manager
    /\ cli.active_profile = "brain"
    /\ pid # None
    /\ os[pid].alive

\* ======================================================= classification
\* How the reclaim classifies the process behind a connection.  A text is a
\* sequence of fragments (its concatenation is the string), so that
\* "contains" is "has the fragments of the signature in a row"; " " is the
\* separator that str.join puts between two parts.

\* ALLOWED_RECLAIM_SIGNATURES
ALLOWED_RECLAIM_SIGNATURES ==
    {<<"llama", "-server">>, <<"llama_cpp", ".server">>, <<"llama", ".cpp">>}

\* str.lower, fragment by fragment.
LowerFrag(f) ==
    CASE f = "LLAMA" -> "llama"
      [] f = "-SERVER" -> "-server"
      [] f = ".EXE" -> ".exe"
      [] OTHER -> f

Lower(text) == [k \in 1..Len(text) |-> LowerFrag(text[k])]

\* signature in text
Contains(signature, text) ==
    \E k \in 1..(Len(text) - Len(signature) + 1) :
        SubSeq(text, k, k + Len(signature) - 1) = signature

RECURSIVE Join(_)
\* " ".join(parts)
Join(parts) ==
    IF parts = <<>> THEN <<>>
    ELSE IF Len(parts) = 1 THEN parts[1]
    ELSE parts[1] \o <<" ">> \o Join(Tail(parts))

\* What process.exe(), process.name() or process.cmdline() gives: a value,
\* or one of the exceptions psutil raises for a process that is gone, that
\* belongs to someone else, or that is a zombie.
Val(v) == [ok |-> TRUE, v |-> v]
Err(e) == [ok |-> FALSE, err |-> e]
ReadErrors == {"NoSuchProcess", "AccessDenied", "ZombieProcess"}

Exes ==
    {<<>>, <<"/opt/", "llama", "-server">>, <<"C:/", "LLAMA", "-SERVER", ".EXE">>,
     <<"/opt/", "llama", ".cpp", "/main">>, <<"/usr/bin/", "python">>,
     <<"/opt/", "llama">>}
Names == {<<"llama", "-server">>, <<"python">>, <<"-server">>, <<"main">>}
Cmdlines ==
    {<<>>,
     << <<"python">>, <<"-m">>, <<"llama_cpp", ".server">> >>,
     << <<"python">>, <<"-m">>, <<"http", ".server">> >>,
     << <<"python">>, <<"llama_cpp">>, <<".server">> >>,
     << <<"main">>, <<>>, <<"--port">> >>}

ExeReads == {Val(v) : v \in Exes} \cup {Err(e) : e \in ReadErrors}
NameReads == {Val(v) : v \in Names} \cup {Err(e) : e \in ReadErrors}
CmdlineReads == {Val(v) : v \in Cmdlines} \cup {Err(e) : e \in ReadErrors}

\* IsAllowedReclaimProcess that compares the texts as they are, without
\* lower().
IsAllowedReclaimProcessCaseSensitive(exe, name, cmdline) ==
    IF ~exe.ok \/ ~name.ok \/ ~cmdline.ok THEN FALSE
    ELSE LET candidates == <<exe.v, name.v>> \o cmdline.v
             parts == SelectSeq(candidates, LAMBDA part : part # <<>>)
             lowered == Join(parts)
         IN  \E signature \in ALLOWED_RECLAIM_SIGNATURES :
                Contains(signature, lowered)

\* _is_allowed_reclaim_process: any of the three reads raising one of the
\* three exceptions gives False; otherwise the non-empty candidates are
\* lower-cased, joined by " " and searched for a signature.
IsAllowedReclaimProcess(exe, name, cmdline) ==
    IF ~exe.ok \/ ~name.ok \/ ~cmdline.ok THEN FALSE
    ELSE LET candidates == <<exe.v, name.v>> \o cmdline.v
             parts == SelectSeq(candidates, LAMBDA part : part # <<>>)
             lowered == Join([k \in 1..Len(parts) |-> Lower(parts[k])])
         IN  \E signature \in ALLOWED_RECLAIM_SIGNATURES :
                Contains(signature, lowered)

\* Lines 93-111: is_tracked first, is_allowed second, foreign otherwise.
Classify(tracked, connPid, exe, name, cmdline) ==
    LET is_tracked == tracked = connPid
        is_allowed == IsAllowedReclaimProcess(exe, name, cmdline)
    IN  IF is_tracked THEN "tracked"
        ELSE IF is_allowed THEN "recognized"
        ELSE "unknown"

\* The PIDs a connection on the port may report, and what the supervisor
\* may track at that time.
ConnPids == {1, ForeignPid}
TrackedPids == {None, 1}

\* A supervisor that tracks `tracked`, and a connection of connPid on the
\* contended port whose process reads as exe, name and cmdline.
InitClass ==
    /\ llama_server_bin = "llama-server"
    /\ anon = {}
    /\ log = <<>>
    /\ call = NoCall
    /\ poll = NoPoll
    /\ dec = NoDec
    /\ cli = NoCli
    /\ peer = Instance("llama-server")
    /\ thr = NoThr
    /\ env = NoEnv
    /\ \E tracked \in TrackedPids, connPid \in ConnPids, exe \in ExeReads,
          name \in NameReads, cmdline \in CmdlineReads :
        /\ proc = tracked
        /\ pid = tracked
        /\ command = IF tracked = None THEN None
                     ELSE Cmd("a.gguf", ContendedPort, <<>>)
        /\ nextPid = 2
        /\ os = [p \in Pids |->
                    IF p = connPid
                    THEN Running(ContendedPort,
                                 IsAllowedReclaimProcess(exe, name, cmdline))
                    ELSE Dead]
        /\ cls = [status |-> "met", tracked |-> tracked, connPid |-> connPid,
                  exe |-> exe, name |-> name, cmdline |-> cmdline,
                  result |-> "none"]

\* The loop of the reclaim classifies the process of the connection.
ClassifyConn ==
    /\ cls.status = "met"
    /\ cls' = [cls EXCEPT !.status = "classified",
                          !.result = Classify(pid, cls.connPid, cls.exe,
                                              cls.name, cls.cmdline)]
    /\ UNCHANGED <<llama_server_bin, proc, pid, command, os, anon, nextPid,
                   log, call, poll, dec, cli, peer, thr, env>>

NextClass == ClassifyConn

SpecClass == InitClass /\ [][NextClass]_vars

\* All three reads gave a value.
Readable == cls.exe.ok /\ cls.name.ok /\ cls.cmdline.ok

\* lower() of the join of executable path, name and command line.
LoweredJoin == Lower(Join(<<cls.exe.v, cls.name.v>> \o cls.cmdline.v))

\* C34: a classified process is tracked iff its PID is the tracked PID;
\* otherwise it is recognized iff all three reads succeeded and the
\* lower-cased join contains a signature of the allow-list, and unknown in
\* every other case; the supervisor's tracking and the process table are as
\* they were when the process was met.
C34_Classification ==
    cls.status = "classified" =>
        /\ (cls.result = "tracked") = (cls.connPid = cls.tracked)
        /\ cls.connPid # cls.tracked =>
            /\ (cls.result = "recognized") =
                  (Readable /\ \E signature \in ALLOWED_RECLAIM_SIGNATURES :
                                  Contains(signature, LoweredJoin))
            /\ ~Readable => cls.result = "unknown"
            /\ cls.result \in {"recognized", "unknown"}
        /\ pid = cls.tracked /\ proc = cls.tracked
        /\ os[cls.connPid].alive

\* A Windows server path in upper case, classified by its name alone.
C34_Witness ==
    /\ cls.status = "classified"
    /\ cls.result = "recognized"
    /\ cls.connPid # cls.tracked
    /\ cls.exe = Val(<<"C:/", "LLAMA", "-SERVER", ".EXE">>)
    /\ cls.name = Val(<<"python">>)
    /\ cls.cmdline = Val(<<>>)

\* A signature that only the separator keeps from appearing.
C34_WitnessSeparated ==
    /\ cls.status = "classified"
    /\ cls.result = "unknown"
    /\ cls.exe = Val(<<"/opt/", "llama">>)
    /\ cls.name = Val(<<"-server">>)
    /\ cls.cmdline = Val(<< <<"python">>, <<"llama_cpp">>, <<".server">> >>)
====
